---- MODULE Spec2Model ----
(***************************************************************************)
(* Line-Scanner-Rewriter scripts of backend/: each script reads a test     *)
(* file, scans it line by line, collects spans, and writes the rewritten   *)
(* lines back.  Text is modelled as a sequence of tokens; a token is a     *)
(* short piece of text.  The characters the scripts test for ( ")" ";"     *)
(* "{" "}" "," and the newline ) are always tokens of their own, so the    *)
(* substring tests of the code are contiguous-subsequence tests here.      *)
(* Indices are 0-based as in the Python source: lines[k] is At(lines, k).  *)
(***************************************************************************)
EXTENDS Integers, Sequences, FiniteSets, TLC

VARIABLES
    script,       \* which script runs over the file in this behaviour
    content,      \* the text of the file on disk
    hist,         \* history: the file text at start and after every completed run
    pc,           \* position of the running script
    lines,        \* the list the script read from the file
    result,       \* the list the script appends its output to
    origin,       \* history: for every element of result, where it came from
    i,            \* the scan index
    start,        \* history: index of the line at which the current span started
    var_name,     \* the variable name captured from the matched line
    indent,       \* the indentation captured from the matched line
    call_lines,   \* the lines collected for the current call
    brace_count   \* running count of '{' minus '}'

vars == <<script, content, hist, pc, lines, result, origin, i, start,
          var_name, indent, call_lines, brace_count>>

\* ------------------------------------------------------------------ bounds
MaxChunks == 3      \* an input file is made of at most this many chunks
MaxRuns == 2        \* a script is run at most this many times over a file
MaxIndent == 4      \* a vehicleId line is indented by at most this many two-space units

\* ------------------------------------------------------------- text helpers
NL == "\n"

\* s[k] of a Python list: a negative index counts from the end, an index
\* outside the list raises IndexError
IndexError == <<"IndexError">>

At(s, k) ==
    IF k >= 0 /\ k < Len(s) THEN s[k + 1]
    ELSE IF k < 0 /\ -k <= Len(s) THEN s[Len(s) + k + 1]
    ELSE IndexError

Min(a, b) == IF a < b THEN a ELSE b

RECURSIVE Flatten(_)
Flatten(ss) == IF ss = <<>> THEN <<>> ELSE Head(ss) \o Flatten(Tail(ss))

\* pat in text
Contains(text, pat) ==
    \E k \in 0..(Len(text) - Len(pat)) :
        \A m \in 1..Len(pat) : text[k + m] = pat[m]

Count(text, tok) == Cardinality({k \in 1..Len(text) : text[k] = tok})

\* f.readlines(): every line keeps its newline; the last one may have none
RECURSIVE ReadLines(_)
ReadLines(text) ==
    IF text = <<>> THEN <<>>
    ELSE IF \E k \in 1..Len(text) : text[k] = NL
         THEN LET k == CHOOSE k \in 1..Len(text) :
                          text[k] = NL /\ \A m \in 1..(k - 1) : text[m] # NL
              IN  <<SubSeq(text, 1, k)>> \o ReadLines(SubSeq(text, k + 1, Len(text)))
         ELSE <<text>>

\* content.split('\n'): at least one element, none holds a newline
RECURSIVE SplitNL(_)
SplitNL(text) ==
    IF \E k \in 1..Len(text) : text[k] = NL
    THEN LET k == CHOOSE k \in 1..Len(text) :
                     text[k] = NL /\ \A m \in 1..(k - 1) : text[m] # NL
         IN  <<SubSeq(text, 1, k - 1)>> \o SplitNL(SubSeq(text, k + 1, Len(text)))
    ELSE <<text>>

\* '\n'.join(lines)
RECURSIVE JoinNL(_)
JoinNL(ls) ==
    IF ls = <<>> THEN <<>>
    ELSE IF Len(ls) = 1 THEN ls[1]
    ELSE ls[1] \o <<NL>> \o JoinNL(Tail(ls))

\* ------------------------------------------------------------------ regex
Space == {" ", "  ", "      ", "        "}
Decl == {"const", "let", "var"}
WordPart == Decl \cup {"obs", "observation", "Id", "_result_", "_obs_", "_obs", "_pos_", "_pos",
                       "result", "position", "parkingPositionId", "foo", "x", "expect", "if"}
ObsPart == {"obs", "observation", "_obs_", "_obs"}
IdPart == {"Id"}

\* number of leading tokens of text that lie in set S
RECURSIVE Run(_, _)
Run(text, S) ==
    IF text # <<>> /\ Head(text) \in S THEN 1 + Run(Tail(text), S) ELSE 0

RECURSIVE RunNot(_, _)
RunNot(text, S) ==
    IF text # <<>> /\ Head(text) \notin S THEN 1 + RunNot(Tail(text), S) ELSE 0

Drop(text, n) == SubSeq(text, n + 1, Len(text))

\* \w*[Oo]bs\w*[Ii]d\w* against a whole word
IsObsId(word) ==
    \E p \in 1..Len(word) : \E q \in (p + 1)..Len(word) :
        word[p] \in ObsPart /\ word[q] \in IdPart

\* the elements of a pattern
Lit(t) == [k |-> "lit", t |-> t, s |-> {}]            \* the text t
One(S) == [k |-> "one", t |-> "", s |-> S]            \* (a|b|c)
Star(S) == [k |-> "star", t |-> "", s |-> S]          \* [S]*
Plus(S) == [k |-> "plus", t |-> "", s |-> S]          \* [S]+
PlusNot(S) == [k |-> "plusnot", t |-> "", s |-> S]    \* [^S]+
ObsIdWord == [k |-> "obsid", t |-> "", s |-> {}]      \* \w*[Oo]bs\w*[Ii]d\w* up to a non-word character

\* how many tokens element e takes at the head of text, -1 if it does not match
Take(text, e) ==
    CASE e.k = "lit" -> IF text # <<>> /\ Head(text) = e.t THEN 1 ELSE -1
      [] e.k = "one" -> IF text # <<>> /\ Head(text) \in e.s THEN 1 ELSE -1
      [] e.k = "star" -> Run(text, e.s)
      [] e.k = "plus" -> IF Run(text, e.s) > 0 THEN Run(text, e.s) ELSE -1
      [] e.k = "plusnot" -> IF RunNot(text, e.s) > 0 THEN RunNot(text, e.s) ELSE -1
      [] e.k = "obsid" -> IF IsObsId(SubSeq(text, 1, Run(text, WordPart)))
                          THEN Run(text, WordPart) ELSE -1

\* re.match(pat, text): <<>> if pat does not match at the head of text, else
\* <<pieces>>, where pieces[n] is the text taken by the n-th element of pat
RECURSIVE MatchFrom(_, _, _)
MatchFrom(text, pat, acc) ==
    IF pat = <<>> THEN <<acc>>
    ELSE LET n == Take(text, Head(pat))
         IN  IF n < 0 THEN <<>>
             ELSE MatchFrom(Drop(text, n), Tail(pat), Append(acc, SubSeq(text, 1, n)))

Match(text, pat) == MatchFrom(text, pat, <<>>)

\* the elements of a replacement: a group reference or literal text
Grp(n) == [g |-> n, t |-> <<>>]
Txt(t) == [g |-> 0, t |-> t]

Expand(rep, pieces) ==
    Flatten([n \in 1..Len(rep) |-> IF rep[n].g > 0 THEN pieces[rep[n].g] ELSE rep[n].t])

\* the first position at or after from where pat matches some text, 0 if none
FirstMatch(text, pat, from) ==
    LET hits == {q \in from..Len(text) :
                    LET m == Match(Drop(text, q - 1), pat)
                    IN  m # <<>> /\ Flatten(m[1]) # <<>>}
    IN  IF hits = {} THEN 0 ELSE CHOOSE q \in hits : \A r \in hits : q <= r

\* re.sub(pat, rep, text): every match, left to right, is replaced
RECURSIVE SubFrom(_, _, _, _)
SubFrom(text, pat, rep, from) ==
    LET q == FirstMatch(text, pat, from)
    IN  IF q = 0 THEN SubSeq(text, from, Len(text))
        ELSE LET pieces == Match(Drop(text, q - 1), pat)[1]
             IN  SubSeq(text, from, q - 1) \o Expand(rep, pieces)
                     \o SubFrom(text, pat, rep, q + Len(Flatten(pieces)))

Sub(text, pat, rep) == SubFrom(text, pat, rep, 1)

\* str.replace(old, new)
RECURSIVE ReplaceFrom(_, _, _, _)
ReplaceFrom(text, old, new, from) ==
    LET hits == {q \in from..(Len(text) - Len(old) + 1) :
                    SubSeq(text, q, q + Len(old) - 1) = old}
    IN  IF hits = {} THEN SubSeq(text, from, Len(text))
        ELSE LET q == CHOOSE q \in hits : \A r \in hits : q <= r
             IN  SubSeq(text, from, q - 1) \o new \o ReplaceFrom(text, old, new, q + Len(old))

Replace(text, old, new) == ReplaceFrom(text, old, new, 1)

\* str.strip()
RECURSIVE Reverse(_)
Reverse(text) == IF text = <<>> THEN <<>> ELSE Append(Reverse(Tail(text)), Head(text))

Strip(text) ==
    LET White == Space \cup {NL}
        lead == Drop(text, Run(text, White))
    IN  SubSeq(lead, 1, Len(lead) - Run(Reverse(lead), White))

SUBMIT == "await observationService.submit("

\* r'(\s*)(const|let|var)\s+(\w*[Oo]bs\w*[Ii]d\w*)\s*=\s*await observationService\.submit\('
\* pieces 1, 2 and 4 are the groups 1, 2 and 3
SubmitAssignPattern ==
    <<Star(Space), One(Decl), Plus(Space), ObsIdWord, Star(Space), Lit("="), Star(Space), Lit(SUBMIT)>>

SubmitAssign(line) == Match(line, SubmitAssignPattern)

\* variant used to show that C3 depends on the captured name: a fixed name
DeclaredNameFixed(line) == <<"observation", "Id">>

\* re.match(r'\s*(const|let|var)\s+(\w+)', line).group(2), 'observationId' if no match
DeclaredName(line) ==
    LET m == Match(line, <<Star(Space), One(Decl), Plus(Space), Plus(WordPart)>>)
    IN  IF m = <<>> THEN <<"observation", "Id">> ELSE m[1][4]

TERM == <<")", ";">>
MARKER == <<"deriveFromObservation">>

\* ------------------------------------------------------------- input files
ObsIdName == <<"obs", "Id">>
ObservationIdName == <<"observation", "Id">>

OneLineSubmit == <<"const", " ">> \o ObsIdName \o <<" ", "=", " ", SUBMIT, "x", ")", ";">>
OpenSubmit == <<"      ", "const", " ">> \o ObservationIdName \o <<" ", "=", " ", SUBMIT, "{">>
CloseCall == <<"}", ")", ";">>
Plain == <<"foo">>
MarkerLine == <<"await violationService.", "deriveFromObservation", "(", "x", ")", ";">>

RECURSIVE Repeat(_, _)
Repeat(x, n) == IF n = 0 THEN <<>> ELSE <<x>> \o Repeat(x, n - 1)

\* a chunk is a list of lines (without their newlines)
Gap == Repeat(Plain, 9)

RECURSIVE SeqsUpTo(_, _)
SeqsUpTo(S, n) ==
    IF n = 0 THEN {<<>>}
    ELSE LET shorter == SeqsUpTo(S, n - 1)
         IN  shorter \cup {Append(s, x) : s \in shorter, x \in S}

\* the texts of the files made of the chunks: every line ends with a newline,
\* except that the last line of the file may lack it
Texts(chunks) ==
    LET lists == {Flatten(cs) : cs \in SeqsUpTo(chunks, MaxChunks)}
        full(ls) == Flatten([k \in 1..Len(ls) |-> ls[k] \o <<NL>>])
    IN  {full(ls) : ls \in lists} \cup
        {SubSeq(full(ls), 1, Len(full(ls)) - 1) : ls \in lists \ {<<>>}}

OneLineObservation ==
    <<"const", " ">> \o ObservationIdName \o <<" ", "=", " ", SUBMIT, "x", ")", ";">>

V2Chunks == {<<OneLineSubmit>>, <<OpenSubmit>>, <<CloseCall>>, <<Plain>>, <<MarkerLine>>, Gap}
AvdChunks == {<<OneLineObservation>>, <<OneLineSubmit>>, <<OpenSubmit>>, <<CloseCall>>,
              <<Plain>>, <<MarkerLine>>}

GETBYID == "await observationService.getById("
DERIVE == "// Derive violations"

Blank == <<>>
ExpectLine == <<"expect", "(", "x", ")", ";">>
DeriveComment == <<"      ", DERIVE, " (as done by API)">>
DeriveObsLine ==
    <<"      ", "const", " ", "_obs_", "obs", "Id", " ", "=", " ", GETBYID, "foo", ")", ";">>
DeriveIfLine == <<"      ", "if (_obs_obsId && _obs_obsId.parkingPositionId) ", "{">>

FsrChunks == {<<OneLineSubmit>>, <<OpenSubmit>>, <<CloseCall>>, <<Blank>>, <<Plain>>,
              <<ExpectLine>>, <<DeriveComment, DeriveObsLine>>, <<DeriveIfLine, MarkerLine>>}

CloseComma == <<"      ", "}", ")", ",">>
CloseIndented == <<"      ", "}", ")", ";">>
NestedOpen == <<"        ", "foo", ":", " ", "{">>
NestedClose == <<"        ", "}", ",">>
OneLineBrace == <<SUBMIT, "{", " ", "x", " ", "}", ")", ";">>

AsbChunks == {<<OpenSubmit>>, <<OneLineBrace>>, <<NestedOpen>>, <<NestedClose>>,
              <<NestedOpen, NestedClose>>, <<CloseIndented>>, <<CloseComma>>, <<Plain>>}

ResultOneLine == <<"const", " ", "result", " ", "=", " ", SUBMIT, "x", ")", ";">>
ResultOpen == <<"  ", "const", " ", "result", " ", "=", " ", SUBMIT, "{">>
ResultExtraction ==
    <<"const", " ", "observation", "Id", " ", "=", " ", "result", ".", "observation", "Id", ";">>
SfDeriveBlock ==
    << <<"const", " ", "_obs_", "result", " ", "=", " ", GETBYID,
         "result", ".", "observation", "Id", ")", ";">>,
       <<"if", " ", "(", "_obs_", "result", " ", "&&", " ", "_obs_", "result", ".",
         "parkingPositionId", ")", " ", "{">>,
       <<"const", " ", "_pos_", "result", " ", "=", " ", "await parkingPositionService.getById(",
         "_obs_", "result", ".", "parkingPositionId", ")", ";">>,
       <<"await violationService.", "deriveFromObservation", "(", "_obs_", "result", ",", " ",
         "_pos_", "result", ",", " ", "'test-user'", ")", ";">> >>

SfChunks == {<<ResultOneLine>>, <<ResultOpen>>, <<CloseCall>>, <<ResultExtraction>>, <<Plain>>,
             SfDeriveBlock}

VehicleRef == "vehicleId: context.vehicleIds."
VehicleLine(n, key) == Repeat("  ", n) \o <<VehicleRef, key, ",">>

FvfChunks == {<<VehicleLine(n, "abc123")>> : n \in 0..MaxIndent}
                 \cup {<<VehicleLine(4, "xyz789")>>, <<VehicleLine(2, "def456")>>,
                       <<VehicleLine(3, "zzz000")>>, <<Plain>>}

SubmitComma == <<"  ", SUBMIT, "{", " ", "x", " ", "}", ")", ",">>
SubmitEmpty == <<SUBMIT, "{", "}", ")", ";">>
SubmitDone == <<SUBMIT, "{", " ", "x", " ", "}", ",", " ", "'test-user'", ")", ";">>

FtChunks == {<<OneLineBrace>>, <<SubmitComma>>, <<SubmitEmpty>>, <<SubmitDone>>, <<OpenSubmit>>,
             <<NestedClose>>, <<CloseIndented>>, <<Plain>>}

Inputs(sc) ==
    CASE sc = "v2" -> Texts(V2Chunks)
      [] sc = "avd" -> Texts(AvdChunks)
      [] sc = "fsr" -> Texts(FsrChunks)
      [] sc = "asb" -> Texts(AsbChunks)
      [] sc = "sf" -> Texts(SfChunks)
      [] sc = "fvf" -> Texts(FvfChunks)
      [] sc = "ft" -> Texts(FtChunks)

Scripts == {"v2", "avd", "fsr", "asb", "sf", "fvf", "ft"}

\* -------------------------------------------------------------------- Init
Init ==
    /\ script \in Scripts
    /\ content \in Inputs(script)
    /\ hist = <<content>>
    /\ pc = "idle"
    /\ lines = <<>>
    /\ result = <<>>
    /\ origin = <<>>
    /\ i = 0
    /\ start = 0
    /\ var_name = <<>>
    /\ indent = <<>>
    /\ call_lines = <<>>
    /\ brace_count = 0

Copied(k) == [src |-> k, part |-> 0, trigger |-> 0]
SpanLast(k, s) == [src |-> k, part |-> -1, trigger |-> s]
Inserted(p, s) == [src |-> -1, part |-> p, trigger |-> s]

\* ------------------------------------------------------ add-derivations-v2
V2Lookahead == 10

V2Block(name) ==
    << <<NL>>,
       <<"      ", "// Derive violations", " (as done by API)", NL>>,
       <<"      ", "const", " ", "obs", " ", "=", " ", "await observationService.getById(">>
           \o name \o <<")", ";", NL>>,
       <<"      ", "if (obs && obs.parkingPositionId) ", "{", NL>>,
       <<"        ", "const", " ", "position", " ", "=", " ",
         "await parkingPositionService.getById(", "obs.parkingPositionId", ")", ";", NL>>,
       <<"        ", "await violationService.", "deriveFromObservation",
         "(", "obs, position, ", "'test-user'", ")", ";", NL>>,
       <<"      ", "}", NL>> >>

\* variant used to show that C1 depends on the window: 5 lines instead of 10
V2HasDerivationShort(ls, from) ==
    \E j \in from..(Min(from + 5, Len(ls)) - 1) : Contains(At(ls, j), MARKER)

V2HasDerivation(ls, from) ==
    \E j \in from..(Min(from + V2Lookahead, Len(ls)) - 1) : Contains(At(ls, j), MARKER)

V2Read ==
    /\ script = "v2" /\ pc = "idle" /\ Len(hist) <= MaxRuns
    /\ lines' = ReadLines(content)
    /\ result' = <<>> /\ origin' = <<>> /\ i' = 0
    /\ pc' = "scan"
    /\ UNCHANGED <<script, content, hist, start, var_name, indent, call_lines, brace_count>>

\* lines 20-22 and 56: a line that starts no span is copied
V2Copy ==
    /\ script = "v2" /\ pc = "scan" /\ i < Len(lines)
    /\ SubmitAssign(At(lines, i)) = <<>>
    /\ result' = Append(result, At(lines, i))
    /\ origin' = Append(origin, Copied(i))
    /\ i' = i + 1
    /\ UNCHANGED <<script, content, hist, pc, lines, start, var_name, indent, call_lines, brace_count>>

\* lines 20-32: a submit assignment is copied and its span begins
V2Match ==
    /\ script = "v2" /\ pc = "scan" /\ i < Len(lines)
    /\ SubmitAssign(At(lines, i)) # <<>>
    /\ result' = Append(result, At(lines, i))
    /\ origin' = Append(origin, Copied(i))
    /\ var_name' = DeclaredName(At(lines, i))
    /\ start' = i
    /\ i' = i + 1
    /\ pc' = "collect"
    /\ UNCHANGED <<script, content, hist, lines, indent, call_lines, brace_count>>

\* lines 33-35: one turn of the span collector
V2Collect ==
    /\ script = "v2" /\ pc = "collect"
    /\ i < Len(lines) /\ ~Contains(At(lines, i - 1), TERM)
    /\ result' = Append(result, At(lines, i))
    /\ origin' = Append(origin, Copied(i))
    /\ i' = i + 1
    /\ UNCHANGED <<script, content, hist, pc, lines, start, var_name, indent, call_lines, brace_count>>

\* lines 33, 37-54: the collector stops, the guard looks ahead, the block is added
V2Guard ==
    /\ script = "v2" /\ pc = "collect"
    /\ ~(i < Len(lines) /\ ~Contains(At(lines, i - 1), TERM))
    /\ IF V2HasDerivation(lines, i)
       THEN UNCHANGED <<result, origin>>
       ELSE /\ result' = result \o V2Block(var_name)
            /\ origin' = origin \o [p \in 1..7 |-> Inserted(p, start)]
    /\ pc' = "scan"
    /\ UNCHANGED <<script, content, hist, lines, i, start, var_name, indent, call_lines, brace_count>>

\* lines 20, 58-59: the scan is over, the file is written
V2Write ==
    /\ script = "v2" /\ pc = "scan" /\ ~(i < Len(lines))
    /\ content' = Flatten(result)
    /\ hist' = Append(hist, content')
    /\ pc' = "idle"
    /\ UNCHANGED <<script, lines, result, origin, i, start, var_name, indent, call_lines, brace_count>>

\* -------------------------------------------------- add-violation-derivation
\* lines 7-13
derivation_code ==
    <<NL,
      "      ", "// Derive violations", " (as done by API)", NL,
      "      ", "const", " ", "obs", " ", "=", " ", "await observationService.getById(",
          "observation", "Id", ")", ";", NL,
      "      ", "if (obs && obs.parkingPositionId) ", "{", NL,
      "        ", "const", " ", "position", " ", "=", " ",
          "await parkingPositionService.getById(", "obs.parkingPositionId", ")", ";", NL,
      "        ", "await violationService.", "deriveFromObservation",
          "(", "obs, position, ", "'test-user'", ")", ";", NL,
      "      ", "}">>

\* line 44: range(i+1, min(i+5, len(lines)))
AvdHasDerivation(ls, at) ==
    \E j \in (at + 1)..(Min(at + 5, Len(ls)) - 1) : Contains(At(ls, j), MARKER)

AvdRead ==
    /\ script = "avd" /\ pc = "idle" /\ Len(hist) <= MaxRuns
    /\ lines' = ReadLines(content)
    /\ result' = <<>> /\ origin' = <<>> /\ i' = 0
    /\ pc' = "scan"
    /\ UNCHANGED <<script, content, hist, start, var_name, indent, call_lines, brace_count>>

\* lines 25-30, 55: a line without a submit call is copied
AvdCopy ==
    /\ script = "avd" /\ pc = "scan" /\ i < Len(lines)
    /\ ~Contains(At(lines, i), <<SUBMIT>>)
    /\ result' = Append(result, At(lines, i))
    /\ origin' = Append(origin, Copied(i))
    /\ i' = i + 1
    /\ UNCHANGED <<script, content, hist, pc, lines, start, var_name, indent, call_lines, brace_count>>

\* lines 25-33: a line with a submit call is copied and its span begins
AvdMatch ==
    /\ script = "avd" /\ pc = "scan" /\ i < Len(lines)
    /\ Contains(At(lines, i), <<SUBMIT>>)
    /\ result' = Append(result, At(lines, i))
    /\ origin' = Append(origin, Copied(i))
    /\ call_lines' = <<At(lines, i)>>
    /\ start' = i
    /\ i' = i + 1
    /\ pc' = "collect"
    /\ UNCHANGED <<script, content, hist, lines, var_name, indent, brace_count>>

\* lines 35-37, 52-53: a collected line without ');'
AvdCollect ==
    /\ script = "avd" /\ pc = "collect" /\ i < Len(lines)
    /\ ~Contains(At(lines, i), TERM)
    /\ call_lines' = Append(call_lines, At(lines, i))
    /\ result' = Append(result, At(lines, i))
    /\ origin' = Append(origin, Copied(i))
    /\ i' = i + 1
    /\ UNCHANGED <<script, content, hist, pc, lines, start, var_name, indent, brace_count>>

\* lines 35-51, 55: a collected line with ');' ends the span
AvdTerminate ==
    /\ script = "avd" /\ pc = "collect" /\ i < Len(lines)
    /\ Contains(At(lines, i), TERM)
    /\ call_lines' = Append(call_lines, At(lines, i))
    /\ IF /\ Contains(Flatten(call_lines'), <<"observation", "Id">>)
          /\ ~AvdHasDerivation(lines, i)
       THEN /\ result' = result \o <<At(lines, i), derivation_code \o <<NL>> >>
            /\ origin' = origin \o <<Copied(i), Inserted(1, start)>>
       ELSE /\ result' = Append(result, At(lines, i))
            /\ origin' = Append(origin, Copied(i))
    /\ i' = i + 1
    /\ pc' = "scan"
    /\ UNCHANGED <<script, content, hist, lines, start, var_name, indent, brace_count>>

\* lines 35, 55: the file ends before any ');'
AvdCollectEnd ==
    /\ script = "avd" /\ pc = "collect" /\ ~(i < Len(lines))
    /\ i' = i + 1
    /\ pc' = "scan"
    /\ UNCHANGED <<script, content, hist, lines, result, origin, start, var_name,
                   indent, call_lines, brace_count>>

\* lines 25, 57-58
AvdWrite ==
    /\ script = "avd" /\ pc = "scan" /\ ~(i < Len(lines))
    /\ content' = Flatten(result)
    /\ hist' = Append(hist, content')
    /\ pc' = "idle"
    /\ UNCHANGED <<script, lines, result, origin, i, start, var_name, indent, call_lines, brace_count>>

\* -------------------------------------------------------- fix-submit-response
\* lines 37-41
FsrRename(line, var_type, name) ==
    Sub(line, <<One(Decl), Plus(Space), ObsIdWord, Star(Space), Lit("=")>>,
        <<Txt(<<var_type, " ", "_result_">> \o name \o <<" ", "=">>)>>)

\* line 51
FsrExtraction(ind, name) ==
    ind \o <<"const", " ">> \o name \o <<" ", "=", " ", "_result_">> \o name
        \o <<".", "observation", "Id", ";", NL>>

\* lines 62-66
FsrDeriveLine(line, name) ==
    Sub(line,
        <<Lit("const"), Lit(" "), Lit("_obs_"), Plus(WordPart), Lit(" "), Lit("="), Lit(" "),
          Lit(GETBYID), Plus(WordPart), Lit(")"), Lit(";")>>,
        <<Txt(<<"const", " ">>), Grp(3), Grp(4),
          Txt(<<" ", "=", " ", GETBYID>> \o name \o <<")", ";">>)>>)

StartsWith(text, S) == text # <<>> /\ Head(text) \in S

\* line 71: the condition of the loop that copies the rest of the derivation block
FsrRestCond ==
    /\ i < Len(lines)
    /\ Strip(At(lines, i)) # <<>>
    /\ ~StartsWith(Strip(At(lines, i)), {DERIVE, "//"})
    /\ ~StartsWith(Strip(At(lines, i)), {"expect"})

FsrRead ==
    /\ script = "fsr" /\ pc = "idle" /\ Len(hist) <= MaxRuns
    /\ lines' = SplitNL(content)
    /\ result' = <<>> /\ origin' = <<>> /\ i' = 0
    /\ pc' = "scan"
    /\ UNCHANGED <<script, content, hist, start, var_name, indent, call_lines, brace_count>>

\* lines 26-31, 78-79
FsrCopy ==
    /\ script = "fsr" /\ pc = "scan" /\ i < Len(lines)
    /\ SubmitAssign(At(lines, i)) = <<>>
    /\ result' = Append(result, At(lines, i))
    /\ origin' = Append(origin, Copied(i))
    /\ i' = i + 1
    /\ UNCHANGED <<script, content, hist, pc, lines, start, var_name, indent, call_lines,
                   brace_count>>

\* lines 26-45: the submit assignment is emitted with its variable renamed
FsrMatch ==
    /\ script = "fsr" /\ pc = "scan" /\ i < Len(lines)
    /\ SubmitAssign(At(lines, i)) # <<>>
    /\ LET m == SubmitAssign(At(lines, i))[1]
       IN  /\ indent' = m[1]
           /\ var_name' = m[4]
           /\ result' = Append(result, FsrRename(At(lines, i), m[2][1], m[4]))
    /\ origin' = Append(origin, Copied(i))
    /\ start' = i
    /\ i' = i + 1
    /\ pc' = "collect"
    /\ UNCHANGED <<script, content, hist, lines, call_lines, brace_count>>

\* lines 46-48
FsrCollect ==
    /\ script = "fsr" /\ pc = "collect"
    /\ i < Len(lines) /\ ~Contains(At(lines, i - 1), TERM)
    /\ result' = Append(result, At(lines, i))
    /\ origin' = Append(origin, Copied(i))
    /\ i' = i + 1
    /\ UNCHANGED <<script, content, hist, pc, lines, start, var_name, indent, call_lines,
                   brace_count>>

\* lines 46, 51, 55, 78-79: no derivation comment follows the span; control
\* falls through to the append of the loop's line
FsrExtract ==
    /\ script = "fsr" /\ pc = "collect"
    /\ ~(i < Len(lines) /\ ~Contains(At(lines, i - 1), TERM))
    /\ ~(i < Len(lines) /\ Contains(At(lines, i), <<DERIVE>>))
    /\ result' = result \o <<FsrExtraction(indent, var_name), At(lines, start)>>
    /\ origin' = origin \o <<Inserted(1, start), Copied(start)>>
    /\ i' = i + 1
    /\ pc' = "scan"
    /\ UNCHANGED <<script, content, hist, lines, start, var_name, indent, call_lines,
                   brace_count>>

\* lines 46, 51, 55-68, 76: the derivation comment and the line after it
FsrDerive ==
    /\ script = "fsr" /\ pc = "collect"
    /\ ~(i < Len(lines) /\ ~Contains(At(lines, i - 1), TERM))
    /\ i < Len(lines) /\ Contains(At(lines, i), <<DERIVE>>)
    /\ IF i + 1 < Len(lines)
       THEN /\ result' = result \o <<FsrExtraction(indent, var_name), At(lines, i),
                                      FsrDeriveLine(At(lines, i + 1), var_name)>>
            /\ origin' = origin \o <<Inserted(1, start), Copied(i), Copied(i + 1)>>
            /\ i' = i + 2
            /\ pc' = "rest"
       ELSE /\ result' = result \o <<FsrExtraction(indent, var_name), At(lines, i)>>
            /\ origin' = origin \o <<Inserted(1, start), Copied(i)>>
            /\ i' = i + 1
            /\ pc' = "scan"
    /\ UNCHANGED <<script, content, hist, lines, start, var_name, indent, call_lines,
                   brace_count>>

\* lines 71-75: one turn of the loop that copies the rest of the block
FsrRest ==
    /\ script = "fsr" /\ pc = "rest" /\ FsrRestCond
    /\ result' = Append(result, At(lines, i))
    /\ origin' = Append(origin, Copied(i))
    /\ i' = i + 1
    /\ pc' = IF Contains(At(lines, i), MARKER) THEN "scan" ELSE "rest"
    /\ UNCHANGED <<script, content, hist, lines, start, var_name, indent, call_lines,
                   brace_count>>

\* lines 71, 76
FsrRestEnd ==
    /\ script = "fsr" /\ pc = "rest" /\ ~FsrRestCond
    /\ pc' = "scan"
    /\ UNCHANGED <<script, content, hist, lines, result, origin, i, start, var_name, indent,
                   call_lines, brace_count>>

\* lines 26, 81-82
FsrWrite ==
    /\ script = "fsr" /\ pc = "scan" /\ ~(i < Len(lines))
    /\ content' = JoinNL(result)
    /\ hist' = Append(hist, content')
    /\ pc' = "idle"
    /\ UNCHANGED <<script, lines, result, origin, i, start, var_name, indent, call_lines,
                   brace_count>>

\* ------------------------------------------------------------ add-submitted-by
SubmitBrace == <<SUBMIT, "{">>

\* variant used to show that C7 depends on the count: closing braces ignored
BraceDeltaOpenOnly(line) == Count(line, "{")

BraceDelta(line) == Count(line, "{") - Count(line, "}")

\* lines 48-53: the last line of the call gets the second parameter
AsbLastLine(last_line) ==
    IF Strip(last_line) = <<"}", ")", ";">>
    THEN Replace(last_line, <<"}", ")", ";">>, <<"}", ",", " ", "'test-user'", ")", ";">>)
    ELSE IF Strip(last_line) = <<"}", ")", ",">>
    THEN Replace(last_line, <<"}", ")", ",">>, <<"}", ",", " ", "'test-user'", ")", ",">>)
    ELSE last_line

AsbRead ==
    /\ script = "asb" /\ pc = "idle" /\ Len(hist) <= MaxRuns
    /\ lines' = SplitNL(content)
    /\ result' = <<>> /\ origin' = <<>> /\ i' = 0
    /\ pc' = "scan"
    /\ UNCHANGED <<script, content, hist, start, var_name, indent, call_lines, brace_count>>

\* lines 33-36, 56-58
AsbCopy ==
    /\ script = "asb" /\ pc = "scan" /\ i < Len(lines)
    /\ ~Contains(At(lines, i), SubmitBrace)
    /\ result' = Append(result, At(lines, i))
    /\ origin' = Append(origin, Copied(i))
    /\ i' = i + 1
    /\ UNCHANGED <<script, content, hist, pc, lines, start, var_name, indent, call_lines,
                   brace_count>>

\* lines 33-40: the start of a submit call seeds the brace count
AsbMatch ==
    /\ script = "asb" /\ pc = "scan" /\ i < Len(lines)
    /\ Contains(At(lines, i), SubmitBrace)
    /\ call_lines' = <<At(lines, i)>>
    /\ brace_count' = BraceDelta(At(lines, i))
    /\ start' = i
    /\ i' = i + 1
    /\ pc' = "collect"
    /\ UNCHANGED <<script, content, hist, lines, result, origin, var_name, indent>>

\* lines 42-45: one turn of the brace-balance collector
AsbCollect ==
    /\ script = "asb" /\ pc = "collect"
    /\ i < Len(lines) /\ brace_count > 0
    /\ call_lines' = Append(call_lines, At(lines, i))
    /\ brace_count' = brace_count + BraceDelta(At(lines, i))
    /\ i' = i + 1
    /\ UNCHANGED <<script, content, hist, pc, lines, result, origin, start, var_name, indent>>

\* lines 42, 47-55: the collector stops; the call is emitted, its last line rewritten
AsbRewrite ==
    /\ script = "asb" /\ pc = "collect"
    /\ ~(i < Len(lines) /\ brace_count > 0)
    /\ LET n == Len(call_lines)
       IN  /\ result' = result \o SubSeq(call_lines, 1, n - 1) \o <<AsbLastLine(call_lines[n])>>
           /\ origin' = origin \o [k \in 1..n |->
                             IF k = n THEN SpanLast(i - 1, start) ELSE Copied(i - n + k - 1)]
    /\ pc' = "scan"
    /\ UNCHANGED <<script, content, hist, lines, i, start, var_name, indent, call_lines,
                   brace_count>>

\* lines 33, 60-63
AsbWrite ==
    /\ script = "asb" /\ pc = "scan" /\ ~(i < Len(lines))
    /\ content' = JoinNL(result)
    /\ hist' = Append(hist, content')
    /\ pc' = "idle"
    /\ UNCHANGED <<script, lines, result, origin, i, start, var_name, indent, call_lines,
                   brace_count>>

\* ------------------------------------------------------------------ simple-fix
ResultSubmit == <<"result", " ", "=", " ", SUBMIT>>
ExtractsObservationId ==
    <<"observation", "Id", " ", "=", " ", "result", ".", "observation", "Id">>

\* lines 22-26
SfPattern1(text) ==
    Sub(text,
        <<Lit("const"), Lit(" "), Lit("result"), Lit(" "), Lit("="), Lit(" "), Lit(SUBMIT)>>,
        <<Txt(<<"const", " ", "result", " ", "=", " ", SUBMIT>>)>>)

\* lines 57-61
SfPattern3a(text) ==
    Sub(text,
        <<Lit("const"), Lit(" "), Lit("_obs_"), Lit("result"), Lit(" "), Lit("="), Lit(" "),
          Lit(GETBYID), Lit("result"), Lit("."), Lit("observation"), Lit("Id"), Lit(")"),
          Lit(";")>>,
        <<Txt(<<"const", " ", "_obs", " ", "=", " ", GETBYID, "observation", "Id", ")", ";">>)>>)

\* lines 63-67
SfPattern3b(text) ==
    Sub(text,
        <<Lit("if"), Lit(" "), Lit("("), Lit("_obs_"), Plus(WordPart), Lit(" "), Lit("&&"),
          Lit(" "), Lit("_obs_"), Plus(WordPart), Lit("."), Lit("parkingPositionId"), Lit(")"),
          Lit(" "), Lit("{")>>,
        <<Txt(<<"if", " ", "(", "_obs", " ", "&&", " ", "_obs", ".", "parkingPositionId", ")",
                " ", "{">>)>>)

\* lines 69-73
SfPattern3c(text) ==
    Sub(text,
        <<Lit("const"), Lit(" "), Lit("_pos_"), Plus(WordPart), Lit(" "), Lit("="), Lit(" "),
          Lit("await parkingPositionService.getById("), Lit("_obs_"), Plus(WordPart), Lit("."),
          Lit("parkingPositionId"), Lit(")"), Lit(";")>>,
        <<Txt(<<"const", " ", "_pos", " ", "=", " ", "await parkingPositionService.getById(",
                "_obs", ".", "parkingPositionId", ")", ";">>)>>)

\* lines 75-79
SfPattern3d(text) ==
    Sub(text,
        <<Lit("await violationService."), Lit("deriveFromObservation"), Lit("("), Lit("_obs_"),
          Plus(WordPart), Lit(","), Lit(" "), Lit("_pos_"), Plus(WordPart), Lit(",")>>,
        <<Txt(<<"await violationService.", "deriveFromObservation", "(", "_obs", ",", " ",
                "_pos", ",">>)>>)

\* lines 14-32
SfRead ==
    /\ script = "sf" /\ pc = "idle" /\ Len(hist) <= MaxRuns
    /\ lines' = SplitNL(SfPattern1(content))
    /\ result' = <<>> /\ origin' = <<>> /\ i' = 0
    /\ pc' = "scan"
    /\ UNCHANGED <<script, content, hist, start, var_name, indent, call_lines, brace_count>>

\* lines 34-38, 52
SfCopy ==
    /\ script = "sf" /\ pc = "scan" /\ i < Len(lines)
    /\ ~Contains(At(lines, i), ResultSubmit)
    /\ result' = Append(result, At(lines, i))
    /\ origin' = Append(origin, Copied(i))
    /\ i' = i + 1
    /\ UNCHANGED <<script, content, hist, pc, lines, start, var_name, indent, call_lines,
                   brace_count>>

\* lines 34-38
SfMatch ==
    /\ script = "sf" /\ pc = "scan" /\ i < Len(lines)
    /\ Contains(At(lines, i), ResultSubmit)
    /\ result' = Append(result, At(lines, i))
    /\ origin' = Append(origin, Copied(i))
    /\ start' = i
    /\ pc' = "collect"
    /\ UNCHANGED <<script, content, hist, lines, i, var_name, indent, call_lines, brace_count>>

\* variant used to show that C6 depends on the bound: no stop before the last line
SfCollectPastEnd ==
    /\ script = "sf" /\ pc = "collect"
    /\ i < Len(lines) /\ ~Contains(At(lines, i), TERM)
    /\ i' = i + 1
    /\ result' = Append(result, At(lines, i'))
    /\ origin' = Append(origin, Copied(i'))
    /\ UNCHANGED <<script, content, hist, pc, lines, start, var_name, indent, call_lines,
                   brace_count>>

\* lines 40-42
SfCollect ==
    /\ script = "sf" /\ pc = "collect"
    /\ i < Len(lines) - 1 /\ ~Contains(At(lines, i), TERM)
    /\ i' = i + 1
    /\ result' = Append(result, At(lines, i'))
    /\ origin' = Append(origin, Copied(i'))
    /\ UNCHANGED <<script, content, hist, pc, lines, start, var_name, indent, call_lines,
                   brace_count>>

\* lines 40, 44-52: the collector stops; the extraction line is added unless it follows
SfExtract ==
    /\ script = "sf" /\ pc = "collect"
    /\ ~(i < Len(lines) - 1 /\ ~Contains(At(lines, i), TERM))
    /\ IF i + 1 < Len(lines) /\ ~Contains(At(lines, i + 1), ExtractsObservationId)
       THEN /\ indent' = SubSeq(At(lines, i), 1, Run(At(lines, i), Space))
            /\ result' = Append(result, indent' \o <<"const", " ", "observation", "Id", " ", "=",
                                 " ", "result", ".", "observation", "Id", ";">>)
            /\ origin' = Append(origin, Inserted(1, start))
       ELSE UNCHANGED <<indent, result, origin>>
    /\ i' = i + 1
    /\ pc' = "scan"
    /\ UNCHANGED <<script, content, hist, lines, start, var_name, call_lines, brace_count>>

\* lines 34, 54-82
SfWrite ==
    /\ script = "sf" /\ pc = "scan" /\ ~(i < Len(lines))
    /\ content' = SfPattern3d(SfPattern3c(SfPattern3b(SfPattern3a(JoinNL(result)))))
    /\ hist' = Append(hist, content')
    /\ pc' = "idle"
    /\ UNCHANGED <<script, lines, result, origin, i, start, var_name, indent, call_lines,
                   brace_count>>

\* ----------------------------------------------------------- fix-vehicle-fields
\* lines 8-12: the references, in the order of the dictionary
vehicle_map ==
    << [ref |-> "abc123", plate |-> "'ABC123'", state |-> "'CA'"],
       [ref |-> "xyz789", plate |-> "'XYZ789'", state |-> "'WA'"],
       [ref |-> "def456", plate |-> "'DEF456'", state |-> "'OR'"] >>

\* lines 9-11: the replacement text of an entry
FvfReplacement(v) ==
    <<"licensePlate: ", v.plate, ",", NL, "        ", "issuingState: ", v.state, ",">>

\* lines 22-27
RECURSIVE FvfReplaceAll(_, _)
FvfReplaceAll(text, n) ==
    IF n > Len(vehicle_map) THEN text
    ELSE FvfReplaceAll(Sub(text, <<Lit(VehicleRef), Lit(vehicle_map[n].ref), Lit(",")>>,
                           <<Txt(FvfReplacement(vehicle_map[n]))>>), n + 1)

\* lines 18-30
FvfRun ==
    /\ script = "fvf" /\ pc = "idle" /\ Len(hist) <= MaxRuns
    /\ content' = FvfReplaceAll(content, 1)
    /\ hist' = Append(hist, content')
    /\ UNCHANGED <<script, pc, lines, result, origin, i, start, var_name, indent, call_lines,
                   brace_count>>

\* -------------------------------------------------------------------- fix-tests
\* r'(await observationService\.submit\(\{[^}]+\}\))' followed by the text last
FtPattern(last) ==
    <<Lit(SUBMIT), Lit("{"), PlusNot({"}"}), Lit("}"), Lit(")"), Lit(last)>>

\* lines 17-22
FtComma(text) ==
    Sub(text, FtPattern(","),
        <<Grp(1), Grp(2), Grp(3), Grp(4), Grp(5), Txt(<<",", " ", "'test-user'", ")", ",">>)>>)

\* lines 25-30
FtSemicolon(text) ==
    Sub(text, FtPattern(";"),
        <<Grp(1), Grp(2), Grp(3), Grp(4), Grp(5), Txt(<<",", " ", "'test-user'", ")", ";">>)>>)

\* lines 11-33
FtRun ==
    /\ script = "ft" /\ pc = "idle" /\ Len(hist) <= MaxRuns
    /\ content' = FtSemicolon(FtComma(content))
    /\ hist' = Append(hist, content')
    /\ UNCHANGED <<script, pc, lines, result, origin, i, start, var_name, indent, call_lines,
                   brace_count>>

\* -------------------------------------------------------------------- Next
Next ==
    \/ V2Read \/ V2Copy \/ V2Match \/ V2Collect \/ V2Guard \/ V2Write
    \/ AvdRead \/ AvdCopy \/ AvdMatch \/ AvdCollect \/ AvdTerminate \/ AvdCollectEnd \/ AvdWrite
    \/ FsrRead \/ FsrCopy \/ FsrMatch \/ FsrCollect \/ FsrExtract \/ FsrDerive \/ FsrRest
    \/ FsrRestEnd \/ FsrWrite
    \/ AsbRead \/ AsbCopy \/ AsbMatch \/ AsbCollect \/ AsbRewrite \/ AsbWrite
    \/ SfRead \/ SfCopy \/ SfMatch \/ SfCollect \/ SfExtract \/ SfWrite
    \/ FvfRun \/ FtRun

Spec == Init /\ [][Next]_vars

\* ------------------------------------------------------------- properties
Done == pc = "idle" /\ Len(hist) >= 2

\* the sources of the copied elements of result, in output order
CopiedSrcs == SelectSeq(origin, LAMBDA o : o.src >= 0)

EveryLineOnceInOrder ==
    /\ Len(CopiedSrcs) = Len(lines)
    /\ \A k \in 1..Len(lines) : CopiedSrcs[k].src = k - 1

CopiesUnaltered ==
    \A p \in 1..Len(result) : origin[p].src >= 0 => result[p] = At(lines, origin[p].src)

\* the first line at or after s that holds ');', the last line if there is none
TermSpanEnd(ls, s) ==
    IF \E k \in s..(Len(ls) - 1) : Contains(At(ls, k), TERM)
    THEN CHOOSE k \in s..(Len(ls) - 1) :
             /\ Contains(At(ls, k), TERM)
             /\ \A m \in s..(k - 1) : ~Contains(At(ls, m), TERM)
    ELSE Len(ls) - 1

\* C1: add-derivations-v2.py is idempotent: a second run over the output of
\* the first run writes exactly that output again.
C1_V2Idempotent ==
    (script = "v2" /\ Len(hist) >= 3) => hist[3] = hist[2]

\* a second run has completed over a file into which the first run inserted
\* a block after a span that never reached ');'
C1_Witness ==
    /\ script = "v2" /\ Len(hist) = 3
    /\ hist[2] # hist[1]
    /\ ~Contains(hist[1], TERM)

\* C3: the output of add-derivations-v2.py is the input line sequence with
\* 7-line blocks inserted: every input line is copied once, unaltered and in
\* order; every block directly follows the last line of the span of the
\* submit assignment that triggered it and names that assignment's variable.
C3_V2OnlyInsertsBlocks ==
    (script = "v2" /\ Done) =>
        /\ EveryLineOnceInOrder
        /\ CopiesUnaltered
        /\ \A p \in 1..Len(result) :
             origin[p].part = 1 =>
                LET s == origin[p].trigger
                    m == SubmitAssign(At(lines, s))
                IN  /\ p + 6 <= Len(result)
                    /\ \A q \in 1..7 : origin[p + q - 1] = Inserted(q, s)
                    /\ p > 1 /\ origin[p - 1].src = TermSpanEnd(lines, s)
                    /\ m # <<>>
                    /\ Contains(result[p + 2],
                                <<"await observationService.getById(">> \o m[1][4] \o <<")">>)
                    /\ Contains(result[p + 5], MARKER)
        /\ \A p \in 1..Len(result) :
             origin[p].part > 1 => origin[p - 1] = Inserted(origin[p].part - 1, origin[p].trigger)

\* a run has inserted two blocks, one of them after a span of several lines
C3_Witness ==
    /\ script = "v2" /\ Done
    /\ \E p, q \in 1..Len(result) :
          /\ p # q /\ origin[p].part = 1 /\ origin[q].part = 1
          /\ origin[p - 1].src > origin[p].trigger

\* C2: a second run of add-violation-derivation.py finds the marker of the
\* block the first run inserted and leaves the file unchanged.
C2_AvdSecondRunUnchanged ==
    (script = "avd" /\ Len(hist) >= 3) => hist[3] = hist[2]

\* C4: add-violation-derivation.py places a block directly after the first
\* line, at or after the line of the submit call, that holds ');'.
C4_AvdBlockAfterSpanEnd ==
    (script = "avd" /\ Done) =>
        \A p \in 1..Len(result) :
            origin[p].part = 1 =>
                p > 1 /\ origin[p - 1].src = TermSpanEnd(lines, origin[p].trigger)

\* C5: fix-submit-response.py emits every input line exactly once and in
\* order, the start line of a matched submit assignment in its renamed form
\* and every other line unchanged.
C5_FsrEveryLineOnce ==
    (script = "fsr" /\ Done) =>
        /\ EveryLineOnceInOrder
        /\ \A p \in 1..Len(result) :
              (origin[p].src >= 0 /\ SubmitAssign(At(lines, origin[p].src)) = <<>>)
                  => result[p] = At(lines, origin[p].src)

\* C9: fix-submit-response.py is idempotent: a second run leaves the file
\* unchanged and renames no assignment to '_result__result_<var>'.
C9_FsrIdempotent ==
    (script = "fsr" /\ Len(hist) >= 3) =>
        /\ hist[3] = hist[2]
        /\ ~Contains(hist[3], <<"_result_", "_result_">>)

LoopScripts == {"v2", "avd", "fsr", "asb", "sf"}

\* every list index a loop reads lies inside the list
IndexInRange ==
    script \in LoopScripts =>
        /\ 0 <= i /\ i <= Len(lines) + 1
        /\ (pc = "collect" /\ script \in {"v2", "fsr"}) => (1 <= i /\ i <= Len(lines))
        /\ (pc = "collect" /\ script = "sf") => i < Len(lines)
        /\ (pc = "collect" /\ script \in {"asb", "avd"}) => call_lines # <<>>
        /\ pc = "rest" => (1 <= i /\ i <= Len(lines))
        /\ \A p \in 1..Len(result) : result[p] # IndexError
        /\ \A p \in 1..Len(call_lines) : call_lines[p] # IndexError

\* the scan index is larger after every iteration of the outer loop
ScanAdvances ==
    script \in LoopScripts =>
        /\ (pc = "scan" /\ pc' = "scan") => i' > i
        /\ (pc = "scan" /\ pc' = "collect") => (start' = i /\ i' >= i)
        /\ pc \in {"collect", "rest"} =>
              (i' >= i /\ start' = start /\ (pc' = "scan" => i' > start))

\* a collector stops at its terminator, or else with the last line of the file
SpanReachesEnd ==
    (script \in LoopScripts /\ pc = "collect" /\ pc' # "collect") =>
        CASE script \in {"v2", "fsr"} -> Contains(At(lines, i - 1), TERM) \/ i = Len(lines)
          [] script = "avd" -> Contains(At(lines, i), TERM) \/ i = Len(lines)
          [] script = "sf" -> Contains(At(lines, i), TERM) \/ i = Len(lines) - 1
          [] script = "asb" -> brace_count <= 0 \/ i = Len(lines)

\* what is left of a run: the lines not yet scanned, then the steps left in
\* the current iteration of the outer loop
Rank ==
    CASE pc = "rest" -> 2
      [] pc = "collect" -> IF script = "sf" THEN 0 ELSE 1
      [] pc = "scan" -> IF script = "sf" THEN 1 ELSE 0
      [] OTHER -> 0

Remaining == 3 * (Len(lines) + 1 - i) + Rank

\* every step of a run leaves less to do
RunShrinks ==
    (script \in LoopScripts /\ pc # "idle" /\ pc' # "idle") =>
        (Remaining' < Remaining /\ Remaining' >= 0)

\* a run ends with the write of what it collected
WritesFile ==
    (script \in LoopScripts /\ pc # "idle" /\ pc' = "idle") =>
        /\ i >= Len(lines)
        /\ hist' = Append(hist, content')
        /\ content' = IF script \in {"v2", "avd"} THEN Flatten(result)
                      ELSE IF script = "sf"
                      THEN SfPattern3d(SfPattern3c(SfPattern3b(SfPattern3a(JoinNL(result)))))
                      ELSE JoinNL(result)

\* C6: every span-collecting loop terminates on every file: the collectors
\* stop at the end of the file with the span reaching the last line, the scan
\* index grows with every iteration, no index outside the list is read, and
\* the script goes on to write the file.
C6_CollectorsTerminate ==
    /\ []IndexInRange
    /\ [][ScanAdvances /\ SpanReachesEnd /\ RunShrinks /\ WritesFile]_vars

\* a file has been written after the brace-balance collector ran into the end
\* of the file with the braces still open
C6_Witness ==
    /\ script = "asb" /\ Done
    /\ brace_count > 0 /\ i = Len(lines)
    /\ origin[Len(origin)].part = -1

\* the number of '{' minus the number of '}' on lines s..k
RECURSIVE Cum(_, _, _)
Cum(ls, s, k) ==
    IF k < s THEN 0
    ELSE Cum(ls, s, k - 1) + Count(At(ls, k), "{") - Count(At(ls, k), "}")

IsFirstZero(ls, s, k) == Cum(ls, s, k) = 0 /\ \A m \in s..(k - 1) : Cum(ls, s, m) > 0

\* ", 'test-user'" put before the closing parenthesis of the line
WithTestUser(line) ==
    LET q == CHOOSE q \in 1..Len(line) : line[q] = ")"
    IN  SubSeq(line, 1, q - 1) \o <<",", " ", "'test-user'">> \o SubSeq(line, q, Len(line))

\* C7: in add-submitted-by.py a span whose braces balance ends at the first
\* line at which the count of '{' minus '}' is back at zero; only the last
\* line of a span is rewritten, and only when it is '});' or '}),'; every
\* other line is emitted unchanged, once and in order; the lines after a span
\* are scanned for further submit calls.
C7_AsbSpanEndsAtFirstZero ==
    (script = "asb" /\ Done) =>
        /\ Len(result) = Len(lines)
        /\ \A p \in 1..Len(result) :
              /\ origin[p].src = p - 1
              /\ origin[p].part = 0 => result[p] = lines[p]
              /\ origin[p].part = -1 =>
                    LET s == origin[p].trigger
                    IN  /\ Contains(At(lines, s), SubmitBrace)
                        /\ \A k \in s..(Len(lines) - 1) : IsFirstZero(lines, s, k) => k = p - 1
                        /\ result[p] =
                              IF Strip(lines[p]) \in {<<"}", ")", ";">>, <<"}", ")", ",">>}
                              THEN WithTestUser(lines[p]) ELSE lines[p]
        /\ \A k \in 0..(Len(lines) - 1) :
              Contains(At(lines, k), SubmitBrace) =>
                  \E p \in 1..Len(result) :
                      /\ origin[p].part = -1
                      /\ origin[p].trigger <= k /\ k <= p - 1

\* a span with a nested pair of braces ended at its '});' line, which was
\* rewritten, and a later line was scanned
C7_Witness ==
    /\ script = "asb" /\ Done
    /\ \E p \in 1..Len(result) :
          /\ origin[p].part = -1
          /\ p - 1 >= origin[p].trigger + 3
          /\ IsFirstZero(lines, origin[p].trigger, p - 1)
          /\ result[p] # lines[p]
          /\ p < Len(result)

\* the width of the leading white space of a line
Width(tok) ==
    CASE tok = " " -> 1 [] tok = "  " -> 2 [] tok = "      " -> 6 [] tok = "        " -> 8

RECURSIVE IndentWidth(_)
IndentWidth(line) ==
    IF line # <<>> /\ Head(line) \in Space
    THEN Width(Head(line)) + IndentWidth(Tail(line))
    ELSE 0

\* C8: fix-vehicle-fields.py replaces every 'vehicleId: context.vehicleIds.<key>,'
\* line by a licensePlate line and an issuingState line that both carry the
\* indentation of the replaced line, and changes nothing else.
C8_FvfKeepsIndentation ==
    (script = "fvf" /\ Len(hist) >= 2) =>
        LET old == SplitNL(hist[1])
            new == SplitNL(hist[2])
            \* the number of output lines that the first k input lines produce
            IsRef(k) == \E n \in 1..Len(vehicle_map) :
                           Contains(old[k], <<VehicleRef, vehicle_map[n].ref, ",">>)
            Before(k) == k - 1 + Cardinality({m \in 1..(k - 1) : IsRef(m)})
        IN  /\ Len(new) = Before(Len(old) + 1)
            /\ \A k \in 1..Len(old) :
                  IF IsRef(k)
                  THEN \E n \in 1..Len(vehicle_map) :
                         /\ Contains(old[k], <<vehicle_map[n].ref>>)
                         /\ Strip(new[Before(k) + 1]) =
                                <<"licensePlate: ", vehicle_map[n].plate, ",">>
                         /\ Strip(new[Before(k) + 2]) =
                                <<"issuingState: ", vehicle_map[n].state, ",">>
                         /\ IndentWidth(new[Before(k) + 1]) = IndentWidth(old[k])
                         /\ IndentWidth(new[Before(k) + 2]) = IndentWidth(old[k])
                  ELSE new[Before(k) + 1] = old[k]

\* what fix-tests.py is meant to write: the second parameter inside the call
FtIntended(text) ==
    Sub(text, <<Lit(SUBMIT), Lit("{"), PlusNot({"}"}), Lit("}"), Lit(")"), One({";", ","})>>,
        <<Grp(1), Grp(2), Grp(3), Grp(4), Txt(<<",", " ", "'test-user'">>), Grp(5), Grp(6)>>)

ParenBalance(text) ==
    Cardinality({k \in 1..Len(text) : text[k] \in {SUBMIT, GETBYID, "("}})
        - Count(text, ")")

\* C10: fix-tests.py puts 'test-user' inside the closing parenthesis of every
\* submit({ ... }) call followed by ';' or ',', keeps the parentheses
\* balanced, and a second run adds nothing.
C10_FtSecondParameterInside ==
    (script = "ft" /\ Len(hist) >= 2) =>
        /\ hist[2] = FtIntended(hist[1])
        /\ ParenBalance(hist[2]) = ParenBalance(hist[1])
        /\ Len(hist) >= 3 => hist[3] = hist[2]

====
